---- MODULE Spec2Model ----
(***************************************************************************)
(* Model of AMQP::ConnectionImpl (src/src/connectionimpl.cpp).             *)
(*                                                                         *)
(* The library is single threaded and every callback is synchronous, so    *)
(* the model keeps an explicit call stack: an operation that calls the     *)
(* handler (onData, onConnected, onError), a channel (close) or the frame  *)
(* processing pushes a callback record, and while a callback record is on  *)
(* top the environment may call back into the connection (send, close,     *)
(* add, remove, destruction) or return.  Code between two such calls runs  *)
(* as one step.                                                            *)
(***************************************************************************)
EXTENDS Integers, Sequences, FiniteSets, TLC

(* ------------------------------ bounds -------------------------------- *)
MaxSends   == 3      \* frames the application sends
MaxIn      == 2      \* frames the peer sends
MaxNest    == 1      \* callbacks nested inside one another that still call in
MaxChans   == 1      \* channel objects created next to the other operations
MaxInParse == 2      \* frames the peer sends when the transport splits freely
MaxAdds    == 5      \* add calls when only the registry is exercised
MaxCap     == 2      \* largest negotiated channel maximum
NumHandles == 3      \* channel objects
MaxTurns   == 6      \* turns of add's scan that are followed in one call

(* ------------------------- program constants -------------------------- *)
IdSpace   == 65536   \* uint16_t channel identifiers
EndOfFrame == 206    \* end-of-frame byte
MaxFrameDefault == 4096

Handles == 1..NumHandles
NoId == -1

VARIABLES
    alive,            \* the ConnectionImpl object exists (Monitor::valid)
    destroying,       \* the destructor has been entered
    state,            \* _state
    closed,           \* _closed
    queue,            \* _queue
    channels,         \* _channels: id -> handle
    nextFreeChannel,  \* _nextFreeChannel
    maxChannels,      \* _maxChannels
    chanId,           \* ChannelImpl::id() of every channel object, NoId: no object
    invalidated,      \* channel objects that received invalidate()
    stack,            \* call stack
    ret,              \* value returned by the call that returned last
    wire,             \* the onData calls made so far, in order
    nsent,            \* send calls issued so far
    napp,             \* of which by the application
    stream,           \* inbound bytes the transport holds and has not had consumed
    peerLog,          \* frames the peer has sent
    dispatched,       \* frames handed to process, in order
    errors,           \* onError calls
    connectedCalls,   \* onConnected calls
    lastAdd,          \* the last add call: arguments, state before, result
    lastParse,        \* the last parse call: buffer, result, what it did
    nadds,            \* add calls made so far
    ub                \* the program has executed undefined behaviour

conn  == <<alive, destroying, state, closed, queue, channels, nextFreeChannel,
           maxChannels, chanId, invalidated>>
ghost == <<wire, nsent, napp, stream, peerLog, dispatched, errors, connectedCalls,
           lastAdd, lastParse, nadds, ub>>
vars  == <<conn, stack, ret, ghost>>

(* ------------------------------ frames -------------------------------- *)
\* outbound frames: partOfHandshake and needsSeparator by frame class
PartOfHandshake(kind) == kind \in {"header", "startok"}
NeedsSeparator(kind)  == kind # "header"

\* a frame object handed to send; early and afterClose record the moment of
\* the call
Frame(kind) ==
    [id |-> nsent + 1, kind |-> kind, hs |-> PartOfHandshake(kind),
     early |-> state \in {"handshake", "protocol"}, afterClose |-> closed]

\* OutBuffer built by send: the frame's bytes, then the end-of-frame byte
FillBuffer_NoSeparator(f) == <<f.id>>
FillBuffer(f) ==
    <<f.id>> \o (IF NeedsSeparator(f.kind) THEN <<EndOfFrame>> ELSE <<>>)

Buffer(f) == [f |-> f, data |-> FillBuffer(f)]

Delivery(b, via) == [f |-> b.f, data |-> b.data, st |-> state, via |-> via]

HeaderFrame ==
    [id |-> 0, kind |-> "header", hs |-> TRUE, early |-> TRUE, afterClose |-> FALSE]

(* ---------------------------- call stack ------------------------------ *)
NoFrame == [id |-> -1, kind |-> "none", hs |-> FALSE, early |-> FALSE, afterClose |-> FALSE]

Ret(op, val) == [op |-> op, val |-> val]

NoAux == [given |-> <<>>, sum |-> 0, last |-> 0, snap |-> <<>>]

Rec(op, pc, f, it, buf, n) ==
    [op |-> op, pc |-> pc, f |-> f, it |-> it, buf |-> buf, n |-> n, aux |-> NoAux]

Call(op)        == Rec(op, "start", NoFrame, NoId, <<>>, 0)
CallSend(f)     == Rec("send", "start", f, NoId, <<>>, 0)
Callback(name, h) == Rec("cb", name, NoFrame, h, <<>>, 0)

Top     == stack[Len(stack)]
Popped  == SubSeq(stack, 1, Len(stack) - 1)
At(op, pc) == stack # <<>> /\ Top.op = op /\ Top.pc = pc
SetTop(r)  == Append(Popped, r)
TopAt(pc)  == [Top EXCEPT !.pc = pc]

(* ------------------------------ send ---------------------------------- *)
\* connectionimpl.cpp:256
SendRefused_NotClosing(st) == st = "closed"
SendRefused(st) == st = "closing" \/ st = "closed"

\* connectionimpl.cpp:268
SendDirect_NoQueueTest(st, qlen, hs) == st = "connected" \/ hs
SendDirect_NoStateTest(st, qlen, hs) == qlen = 0 \/ hs
SendDirect(st, qlen, hs) == (st = "connected" /\ qlen = 0) \/ hs

SendStart ==
    /\ At("send", "start")
    /\ IF SendRefused(state)
       THEN /\ stack' = Popped
            /\ ret' = Ret("send", FALSE)
            /\ UNCHANGED <<conn, ghost>>
       ELSE LET buffer == Buffer(Top.f) IN
            IF SendDirect(state, Len(queue), Top.f.hs)
            THEN /\ wire' = Append(wire, Delivery(buffer, "direct"))
                 /\ stack' = Append(SetTop(TopAt("afterData")), Callback("onData", NoId))
                 /\ UNCHANGED <<conn, ret, nsent, napp, stream, peerLog, dispatched,
                                errors, connectedCalls, lastAdd, lastParse, nadds, ub>>
            ELSE /\ queue' = Append(queue, buffer)
                 /\ stack' = Popped
                 /\ ret' = Ret("send", TRUE)
                 /\ UNCHANGED <<alive, destroying, state, closed, channels,
                                nextFreeChannel, maxChannels, chanId, invalidated, ghost>>

SendReturn ==
    /\ At("send", "afterData")
    /\ stack' = Popped
    /\ ret' = Ret("send", TRUE)
    /\ UNCHANGED <<conn, ghost>>

(* ------------------------------ close --------------------------------- *)
\* connectionimpl.cpp:166
CloseDeferred_Never(st) == FALSE
CloseDeferred(st) == st = "handshake" \/ st = "protocol"

\* connectionimpl.cpp:160
CloseRefused_Never(c) == FALSE
CloseRefused(c) == c

CloseStart ==
    /\ At("close", "start")
    /\ IF CloseRefused(closed)
       THEN /\ stack' = Popped
            /\ ret' = Ret("close", FALSE)
            /\ UNCHANGED <<conn, ghost>>
       ELSE /\ closed' = TRUE
            /\ IF CloseDeferred(state)
               THEN /\ stack' = Popped
                    /\ ret' = Ret("close", TRUE)
               ELSE /\ stack' = Append(SetTop(TopAt("afterSendClose")), Call("sendClose"))
                    /\ UNCHANGED ret
            /\ UNCHANGED <<alive, destroying, state, queue, channels, nextFreeChannel,
                           maxChannels, chanId, invalidated, ghost>>

CloseReturn ==
    /\ At("close", "afterSendClose")
    /\ stack' = Popped
    /\ ret' = Ret("close", TRUE)
    /\ UNCHANGED <<conn, ghost>>

(* ---------------------------- sendClose ------------------------------- *)
Keys == {p[1] : p \in channels}
HandleOf(id) == (CHOOSE p \in channels : p[1] = id)[2]

\* std::map iteration order: begin() and operator++ on a valid iterator
Begin == IF Keys = {} THEN NoId ELSE CHOOSE k \in Keys : \A j \in Keys : k <= j
NextKey(k) ==
    LET above == {j \in Keys : j > k} IN
    IF above = {} THEN NoId ELSE CHOOSE j \in above : \A i \in above : j <= i

\* the handles registered when sendClose starts
Registered == {p[2] : p \in channels}

\* connectionimpl.cpp:186-196, the loop test and the call it leads to; the
\* record keeps the handles registered at the start and those asked to close
SendCloseVisit(it) ==
    LET rec == IF Top.pc = "start" THEN [Top EXCEPT !.aux.snap = Registered]
               ELSE Top IN
    IF it # NoId
    THEN /\ stack' = Append(SetTop([rec EXCEPT !.pc = "afterChan", !.it = it,
                                               !.buf = Append(@, HandleOf(it))]),
                            Callback("chanClose", HandleOf(it)))
         /\ UNCHANGED nsent
    ELSE /\ stack' = Append(SetTop([rec EXCEPT !.pc = "afterSend", !.it = it]),
                            CallSend(Frame("close")))
         /\ nsent' = nsent + 1

SendCloseStart ==
    /\ At("sendClose", "start")
    /\ SendCloseVisit(Begin)
    /\ UNCHANGED <<conn, ret, wire, napp, stream, peerLog, dispatched, errors,
                   connectedCalls, lastAdd, lastParse, nadds, ub>>

\* connectionimpl.cpp:192 and the iter++ of line 186; incrementing an iterator
\* whose element was erased is undefined: any position may follow
SendCloseAfterChannel ==
    /\ At("sendClose", "afterChan")
    /\ IF ~alive
       THEN /\ stack' = Popped
            /\ ret' = Ret("sendClose", FALSE)
            /\ UNCHANGED <<conn, ghost>>
       ELSE /\ IF Top.it \in Keys
               THEN /\ SendCloseVisit(NextKey(Top.it))
                    /\ UNCHANGED ub
               ELSE /\ \E k \in Keys \cup {NoId} : SendCloseVisit(k)
                    /\ ub' = TRUE
            /\ UNCHANGED <<conn, ret, wire, napp, stream, peerLog, dispatched, errors,
                           connectedCalls, lastAdd, lastParse, nadds>>

\* connectionimpl.cpp:199-205
SendCloseAfterSend ==
    /\ At("sendClose", "afterSend")
    /\ stack' = Popped
    /\ IF ~alive
       THEN /\ ret' = Ret("sendClose", FALSE)
            /\ UNCHANGED state
       ELSE /\ ret' = Ret("sendClose", TRUE)
            /\ state' = "closing"
    /\ UNCHANGED <<alive, destroying, closed, queue, channels, nextFreeChannel,
                   maxChannels, chanId, invalidated, ghost>>

(* --------------------------- setConnected ----------------------------- *)
\* connection-close frames handed to onData or waiting in the queue
CloseFrames ==
    Cardinality({i \in DOMAIN wire : wire[i].f.kind = "close"})
        + Cardinality({i \in DOMAIN queue : queue[i].f.kind = "close"})

\* connectionimpl.cpp:226
InformConnected ==
    /\ connectedCalls' = connectedCalls + 1
    /\ stack' = Append(SetTop(TopAt("drain")), Callback("onConnected", NoId))

\* connectionimpl.cpp:214-226
SetConnectedStart ==
    /\ At("setConnected", "start")
    /\ state' = "connected"
    /\ IF closed
       THEN /\ stack' = Append(SetTop([Top EXCEPT !.pc = "afterSendClose",
                                                   !.n = CloseFrames]),
                               Call("sendClose"))
            /\ UNCHANGED connectedCalls
       ELSE InformConnected
    /\ UNCHANGED <<alive, destroying, closed, queue, channels, nextFreeChannel,
                   maxChannels, chanId, invalidated, ret, wire, nsent, napp, stream,
                   peerLog, dispatched, errors, lastAdd, lastParse, nadds, ub>>

\* connectionimpl.cpp:219-226
SetConnectedAfterSendClose ==
    /\ At("setConnected", "afterSendClose")
    /\ IF ret.val = FALSE
       THEN /\ stack' = Popped
            /\ UNCHANGED connectedCalls
       ELSE InformConnected
    /\ UNCHANGED <<conn, ret, wire, nsent, napp, stream, peerLog, dispatched, errors,
                   lastAdd, lastParse, nadds, ub>>

\* connectionimpl.cpp:229-245
QueueFront(q) == Head(q)
QueuePop(q) == Tail(q)

SetConnectedDrain ==
    /\ At("setConnected", "drain")
    /\ IF ~alive \/ queue = <<>>
       THEN /\ stack' = Popped
            /\ UNCHANGED <<queue, wire>>
       ELSE /\ queue' = QueuePop(queue)
            /\ wire' = Append(wire, Delivery(QueueFront(queue), "queue"))
            /\ stack' = Append(stack, Callback("onData", NoId))
    /\ UNCHANGED <<alive, destroying, state, closed, channels, nextFreeChannel,
                   maxChannels, chanId, invalidated, ret, nsent, napp, stream, peerLog,
                   dispatched, errors, connectedCalls, lastAdd, lastParse, nadds, ub>>

(* ---------------------------- destructor ------------------------------ *)
\* connectionimpl.cpp:44
DestroyStart ==
    /\ At("destroy", "start")
    /\ destroying' = TRUE
    /\ stack' = Append(SetTop(TopAt("afterClose")), Call("close"))
    /\ UNCHANGED <<alive, state, closed, queue, channels, nextFreeChannel,
                   maxChannels, chanId, invalidated, ret, ghost>>

\* connectionimpl.cpp:47, then the members and the Watchable base are destroyed
DestroyFinish_NoInvalidate ==
    /\ At("destroy", "afterClose")
    /\ alive' = FALSE
    /\ stack' = Popped
    /\ UNCHANGED <<destroying, state, closed, queue, channels, nextFreeChannel,
                   maxChannels, chanId, invalidated, ret, ghost>>

DestroyFinish ==
    /\ At("destroy", "afterClose")
    /\ invalidated' = invalidated \cup {p[2] : p \in channels}
    /\ alive' = FALSE
    /\ stack' = Popped
    /\ UNCHANGED <<destroying, state, closed, queue, channels, nextFreeChannel,
                   maxChannels, chanId, ret, ghost>>

(* ----------------------------- registry ------------------------------- *)
\* connectionimpl.cpp:59
AtCapacity_Above(maxc, size) == maxc > 0 /\ size > maxc
AtCapacity(maxc, size) == maxc > 0 /\ size >= maxc

\* connectionimpl.cpp:65, the test that ends the scan
IdIsFree_ZeroToo(c, used) == c \notin used
IdIsFree(c, used) == c > 0 /\ c \notin used

\* connectionimpl.cpp:68 and 75, uint16_t increment
Incr16(c) == (c + 1) % IdSpace

\* connectionimpl.cpp:62-69
RECURSIVE ScanFree(_, _)
ScanFree(c, used) == IF IdIsFree(c, used) THEN c ELSE ScanFree(Incr16(c), used)

\* where the scan starts
ScanFrom_One(cursor) == 1
ScanFrom(cursor) == cursor

\* connectionimpl.cpp:56-76
Add(h) ==
    /\ nadds' = nadds + 1
    /\ IF AtCapacity(maxChannels, Cardinality(channels))
       THEN /\ lastAdd' = [h |-> h, id |-> 0, cursor |-> nextFreeChannel,
                           used |-> Keys, n |-> nadds + 1, max |-> maxChannels]
            /\ ret' = Ret("add", 0)
            /\ chanId' = [chanId EXCEPT ![h] = 0]
            /\ UNCHANGED <<channels, nextFreeChannel>>
       ELSE LET id == ScanFree(ScanFrom(nextFreeChannel), Keys) IN
            /\ lastAdd' = [h |-> h, id |-> id, cursor |-> nextFreeChannel,
                           used |-> Keys, n |-> nadds + 1, max |-> maxChannels]
            /\ channels' = {p \in channels : p[1] # id} \cup {<<id, h>>}
            /\ nextFreeChannel' = Incr16(id)
            /\ ret' = Ret("add", id)
            /\ chanId' = [chanId EXCEPT ![h] = id]

\* connectionimpl.cpp:82-89; the caller is the channel object's destructor
Remove(h) ==
    /\ channels' = IF chanId[h] = 0 THEN channels
                   ELSE {p \in channels : p[1] # chanId[h]}
    /\ chanId' = [chanId EXCEPT ![h] = NoId]

(* ------------------------- inbound frames ----------------------------- *)
\* wire form of an inbound frame: a header of type and payload size, the
\* payload, the end-of-frame byte
HeaderSize == 2
InKinds == {"start", "openok", "closeok", "app"}
TypeByte(kind) ==
    CASE kind = "start" -> 1 [] kind = "openok" -> 2 [] kind = "closeok" -> 3
      [] kind = "app" -> 4 [] OTHER -> 9
KindOf(b) ==
    CASE b = 1 -> "start" [] b = 2 -> "openok" [] b = 3 -> "closeok"
      [] b = 4 -> "app" [] OTHER -> "unknown"
Encode(kind, payload) == <<TypeByte(kind), Len(payload)>> \o payload \o <<EndOfFrame>>
\* a header that announces more payload than any frame may carry
Oversized == <<TypeByte("app"), MaxFrameDefault + 1>>

Drop(q, k) == SubSeq(q, k + 1, Len(q))

\* ReceivedFrame(buffer, size, maxFrame): complete(), totalSize(), or a
\* ProtocolException
Decode(buf, maxFrame) ==
    IF Len(buf) < HeaderSize THEN [res |-> "incomplete", size |-> 0]
    ELSE IF buf[2] > maxFrame THEN [res |-> "throw", size |-> 0]
    ELSE IF Len(buf) < HeaderSize + buf[2] + 1 THEN [res |-> "incomplete", size |-> 0]
    ELSE IF buf[HeaderSize + buf[2] + 1] # EndOfFrame THEN [res |-> "throw", size |-> 0]
    ELSE [res |-> "complete", size |-> HeaderSize + buf[2] + 1]

(* ------------------------------ parse --------------------------------- *)
Snapshot == <<state, closed, queue, channels, nextFreeChannel, maxChannels,
              wire, connectedCalls, errors, dispatched>>

\* the return statements of parse; the caller keeps the bytes not consumed
ParseReturn(n, rec) ==
    /\ stack' = Popped
    /\ ret' = Ret("parse", n)
    /\ stream' = Drop(stream, n)
    /\ lastParse' = [given |-> rec.aux.given, n |-> n, sum |-> rec.aux.sum,
                     last |-> rec.aux.last,
                     same |-> rec.aux.snap = Snapshot,
                     entry |-> rec.aux.snap[1],
                     fault |-> rec.pc = "afterError",
                     prev |-> lastParse.given, prevn |-> lastParse.n]

\* connectionimpl.cpp:141, ConnectionImpl::reportError
ReportError ==
    /\ state' = "closed"
    /\ errors' = errors + 1
    /\ stack' = Append(SetTop(TopAt("afterError")), Callback("onError", NoId))

\* connectionimpl.cpp:127, what parse returns on an incomplete frame
IncompleteResult_CountAll(n, size) == n + size
IncompleteResult(n, size) == n

\* connectionimpl.cpp:136
Advance(n, bytes) == n + bytes

\* connectionimpl.cpp:120
LoopContinues_IgnoreMonitor(size, valid) == size > 0
LoopContinues(size, valid) == size > 0 /\ valid

\* connectionimpl.cpp:120-130, one turn of the loop up to the call of process
ParseTurn(buf, n) ==
    LET rec == [Top EXCEPT !.buf = buf, !.n = n] IN
    IF ~LoopContinues(Len(buf), alive)
    THEN /\ ParseReturn(n, rec)
         /\ UNCHANGED <<conn, wire, nsent, napp, peerLog, dispatched, errors,
                        connectedCalls, lastAdd, nadds, ub>>
    ELSE LET d == Decode(buf, MaxFrameDefault) IN
         CASE d.res = "throw" ->
                /\ ReportError
                /\ UNCHANGED <<alive, destroying, closed, queue, channels,
                               nextFreeChannel, maxChannels, chanId, invalidated,
                               ret, wire, nsent, napp, stream, peerLog, dispatched,
                               connectedCalls, lastAdd, lastParse, nadds, ub>>
           [] d.res = "incomplete" ->
                /\ ParseReturn(IncompleteResult(n, Len(buf)), rec)
                /\ UNCHANGED <<conn, wire, nsent, napp, peerLog, dispatched, errors,
                               connectedCalls, lastAdd, nadds, ub>>
           [] d.res = "complete" ->
                /\ dispatched' = Append(dispatched, KindOf(buf[1]))
                /\ stack' = Append(
                       SetTop([rec EXCEPT !.pc = "afterProcess",
                                          !.aux.sum = @ + d.size, !.aux.last = d.size]),
                       Rec("process", "start", NoFrame, NoId, SubSeq(buf, 1, d.size), 0))
                /\ UNCHANGED <<conn, ret, wire, nsent, napp, stream, peerLog, errors,
                               connectedCalls, lastAdd, lastParse, nadds, ub>>

\* connectionimpl.cpp:110-113
ParseStart ==
    /\ At("parse", "start")
    /\ IF state = "closed"
       THEN /\ ParseReturn(0, Top)
            /\ UNCHANGED <<conn, wire, nsent, napp, peerLog, dispatched, errors,
                           connectedCalls, lastAdd, nadds, ub>>
       ELSE ParseTurn(Top.buf, 0)

\* connectionimpl.cpp:133-145, after process returned or threw
ParseAfterProcess ==
    /\ At("parse", "afterProcess")
    /\ IF ret.val = FALSE
       THEN /\ ReportError
            /\ UNCHANGED <<alive, destroying, closed, queue, channels,
                           nextFreeChannel, maxChannels, chanId, invalidated,
                           ret, wire, nsent, napp, stream, peerLog, dispatched,
                           connectedCalls, lastAdd, lastParse, nadds, ub>>
       ELSE LET bytes == Decode(Top.buf, MaxFrameDefault).size IN
            ParseTurn(Drop(Top.buf, bytes), Advance(Top.n, bytes))

\* connectionimpl.cpp:144
ParseAfterError ==
    /\ At("parse", "afterError")
    /\ ParseReturn(Top.n, Top)
    /\ UNCHANGED <<conn, wire, nsent, napp, peerLog, dispatched, errors,
                   connectedCalls, lastAdd, nadds, ub>>

(* -------------------- ReceivedFrame::process -------------------------- *)
\* what the frame classes do to the connection when processed
ProcessStart ==
    /\ At("process", "start")
    /\ LET kind == KindOf(Top.buf[1]) IN
       CASE kind = "start" ->
              /\ state' = IF state = "handshake" THEN "protocol" ELSE state
              /\ maxChannels' = Top.buf[HeaderSize + 1]
              /\ nsent' = nsent + 1
              /\ stack' = Append(SetTop(TopAt("done")),
                                 CallSend(Frame("startok")))
         [] kind = "openok" ->
              /\ stack' = Append(SetTop(TopAt("done")), Call("setConnected"))
              /\ UNCHANGED <<state, maxChannels, nsent>>
         [] kind = "closeok" ->
              /\ state' = "closed"
              /\ stack' = SetTop(TopAt("done"))
              /\ UNCHANGED <<maxChannels, nsent>>
         [] OTHER ->
              /\ stack' = Append(SetTop(TopAt("done")), Callback("process", NoId))
              /\ UNCHANGED <<state, maxChannels, nsent>>
    /\ UNCHANGED <<alive, destroying, closed, queue, channels, nextFreeChannel,
                   chanId, invalidated, ret, wire, napp, stream, peerLog, dispatched,
                   errors, connectedCalls, lastAdd, lastParse, nadds, ub>>

ProcessDone ==
    /\ At("process", "done")
    /\ stack' = Popped
    /\ ret' = IF ret.op = "throw" THEN Ret("process", FALSE) ELSE Ret("process", TRUE)
    /\ UNCHANGED <<conn, ghost>>

(* --------------------------- environment ------------------------------ *)
\* the application, the channel layer and the transport call into a live
\* connection from outside any operation or from inside a callback
InCallback == stack # <<>> /\ Top.op = "cb"
Nesting == Cardinality({i \in DOMAIN stack : stack[i].op = "cb"})
CanCall == alive /\ (stack = <<>> \/ InCallback) /\ Nesting <= MaxNest
InChannelLayer == IF stack = <<>> THEN TRUE ELSE Top.pc = "chanClose"

EnvSend ==
    /\ CanCall
    /\ napp < MaxSends
    /\ stack' = Append(stack, CallSend(Frame(
           IF InCallback /\ Top.pc = "chanClose" THEN "chanclose" ELSE "app")))
    /\ nsent' = nsent + 1
    /\ napp' = napp + 1
    /\ UNCHANGED <<conn, ret, wire, stream, peerLog, dispatched, errors,
                   connectedCalls, lastAdd, lastParse, nadds, ub>>

EnvClose ==
    /\ CanCall
    /\ stack' = Append(stack, Call("close"))
    /\ UNCHANGED <<conn, ret, ghost>>

EnvDestroy ==
    /\ CanCall
    /\ ~destroying
    /\ stack' = Append(stack, Call("destroy"))
    /\ UNCHANGED <<conn, ret, ghost>>

\* a channel object is constructed: ChannelImpl takes its id from add
EnvAdd ==
    /\ CanCall
    /\ InChannelLayer
    /\ nadds < MaxChans
    /\ \E h \in 1..MaxChans : chanId[h] = NoId /\ Add(h)
    /\ UNCHANGED <<alive, destroying, state, closed, queue, maxChannels, invalidated,
                   stack, wire, nsent, napp, stream, peerLog, dispatched, errors,
                   connectedCalls, lastParse, ub>>

\* a channel object is destructed
EnvRemove ==
    /\ CanCall
    /\ InChannelLayer
    /\ \E h \in Handles : chanId[h] # NoId /\ Remove(h)
    /\ ret' = Ret("remove", TRUE)
    /\ UNCHANGED <<alive, destroying, state, closed, queue, nextFreeChannel,
                   maxChannels, invalidated, stack, wire, nsent, napp, stream,
                   peerLog, dispatched, errors, connectedCalls, lastAdd, lastParse,
                   nadds, ub>>

\* the callback returns
EnvReturn ==
    /\ InCallback
    /\ stack' = Popped
    /\ ret' = Ret("cb", TRUE)
    /\ UNCHANGED <<conn, ghost>>

\* the processing of a frame raises a ProtocolException
EnvThrow ==
    /\ InCallback
    /\ Top.pc = "process"
    /\ alive
    /\ stack' = Popped
    /\ ret' = Ret("throw", FALSE)
    /\ UNCHANGED <<conn, ghost>>

\* the peer sends a frame
InFrames ==
    {Encode(k, <<>>) : k \in InKinds \ {"start"}}
        \cup {Encode("start", <<c>>) : c \in 0..MaxCap} \cup {Oversized}

\* the peer sends a frame and the transport holds its bytes
PeerSend ==
    /\ stack = <<>>
    /\ alive
    /\ Len(peerLog) < MaxInParse
    /\ \E bytes \in InFrames :
          /\ stream' = stream \o bytes
          /\ peerLog' = Append(peerLog, bytes)
    /\ UNCHANGED <<conn, stack, ret, wire, nsent, napp, dispatched, errors,
                   connectedCalls, lastAdd, lastParse, nadds, ub>>

ParseCall(buf) ==
    [Rec("parse", "start", NoFrame, NoId, buf, 0)
       EXCEPT !.aux = [given |-> buf, sum |-> 0, last |-> 0, snap |-> Snapshot]]

\* the transport hands the first k bytes it holds to parse, for any k
EnvParse ==
    /\ stack = <<>>
    /\ alive
    /\ stream # <<>>
    /\ \E k \in 0..Len(stream) : stack' = <<ParseCall(SubSeq(stream, 1, k))>>
    /\ UNCHANGED <<conn, ret, ghost>>

\* a frame arrives and the transport hands all the bytes it holds to parse
EnvReceive ==
    /\ stack = <<>>
    /\ alive
    /\ Len(peerLog) < MaxIn
    /\ \E bytes \in InFrames :
          /\ stream' = stream \o bytes
          /\ peerLog' = Append(peerLog, bytes)
          /\ stack' = <<ParseCall(stream \o bytes)>>
    /\ UNCHANGED <<conn, ret, wire, nsent, napp, dispatched, errors,
                   connectedCalls, lastAdd, lastParse, nadds, ub>>

\* two frames arrive together and the transport hands all the bytes it holds
\* to parse
EnvReceiveTwo ==
    /\ stack = <<>>
    /\ alive
    /\ Len(peerLog) + 2 <= MaxIn
    /\ \E first, second \in InFrames :
          /\ stream' = stream \o first \o second
          /\ peerLog' = peerLog \o <<first, second>>
          /\ stack' = <<ParseCall(stream \o first \o second)>>
    /\ UNCHANGED <<conn, ret, wire, nsent, napp, dispatched, errors,
                   connectedCalls, lastAdd, lastParse, nadds, ub>>

(* ------------------------- specification ------------------------------ *)
\* the state the constructor leaves: the protocol header went to onData
Constructed ==
    /\ alive = TRUE
    /\ destroying = FALSE
    /\ state = "handshake"
    /\ closed = FALSE
    /\ queue = <<>>
    /\ invalidated = {}
    /\ stack = <<>>
    /\ ret = Ret("none", FALSE)
    /\ wire = <<[f |-> HeaderFrame, data |-> FillBuffer(HeaderFrame),
                 st |-> "handshake", via |-> "direct"]>>
    /\ nsent = 0
    /\ napp = 0
    /\ stream = <<>>
    /\ peerLog = <<>>
    /\ dispatched = <<>>
    /\ errors = 0
    /\ connectedCalls = 0
    /\ lastAdd = [h |-> 0, id |-> 0, cursor |-> 0, used |-> {}, n |-> 0, max |-> 0]
    /\ lastParse = [given |-> <<>>, n |-> 0, sum |-> 0, last |-> 0, same |-> TRUE,
                    entry |-> "handshake",
                    fault |-> FALSE, prev |-> <<>>, prevn |-> 0]
    /\ nadds = 0
    /\ ub = FALSE

Init ==
    /\ Constructed
    /\ channels = {}
    /\ chanId = [h \in Handles |-> NoId]
    /\ nextFreeChannel = 1
    /\ maxChannels = 0

Next ==
    \/ SendStart \/ SendReturn
    \/ CloseStart \/ CloseReturn
    \/ SendCloseStart \/ SendCloseAfterChannel \/ SendCloseAfterSend
    \/ SetConnectedStart \/ SetConnectedAfterSendClose \/ SetConnectedDrain
    \/ DestroyStart \/ DestroyFinish
    \/ ParseStart \/ ParseAfterProcess \/ ParseAfterError
    \/ ProcessStart \/ ProcessDone
    \/ EnvSend \/ EnvClose \/ EnvDestroy \/ EnvAdd \/ EnvRemove
    \/ EnvReturn \/ EnvThrow \/ EnvReceive \/ EnvReceiveTwo

Spec == Init /\ [][Next]_vars

(* the registry on its own: channel objects come and go, the negotiated *)
(* maximum changes.  It starts as constructed, or as pairs of add and remove *)
(* leave it: the cursor just below the end of the identifier space, with no *)
(* channel or with the first channel still registered under identifier 1. *)
StartRegistries ==
    { [cursor |-> 1, channels |-> {}],
      [cursor |-> IdSpace - 2, channels |-> {}],
      [cursor |-> IdSpace - 1, channels |-> {<<1, 1>>}] }

RegAdd ==
    /\ nadds < MaxAdds
    /\ \E h \in Handles : chanId[h] = NoId /\ Add(h)
    /\ UNCHANGED <<alive, destroying, state, closed, queue, maxChannels, invalidated,
                   stack, wire, nsent, napp, stream, peerLog, dispatched, errors,
                   connectedCalls, lastParse, ub>>

RegRemove ==
    /\ \E h \in Handles : chanId[h] # NoId /\ Remove(h)
    /\ ret' = Ret("remove", TRUE)
    /\ UNCHANGED <<alive, destroying, state, closed, queue, nextFreeChannel,
                   maxChannels, invalidated, stack, wire, nsent, napp, stream,
                   peerLog, dispatched, errors, connectedCalls, lastAdd, lastParse,
                   nadds, ub>>

\* ConnectionImpl::setCapacity: the negotiated channel maximum
RegSetCapacity ==
    /\ \E c \in 0..MaxCap : maxChannels' = c
    /\ ret' = Ret("setCapacity", TRUE)
    /\ UNCHANGED <<alive, destroying, state, closed, queue, channels, nextFreeChannel,
                   chanId, invalidated, stack, ghost>>

InitReg ==
    /\ Constructed
    /\ \E r \in StartRegistries :
          /\ nextFreeChannel = r.cursor
          /\ channels = r.channels
          /\ chanId = [h \in Handles |->
                         IF \E p \in r.channels : p[2] = h
                         THEN (CHOOSE p \in r.channels : p[2] = h)[1] ELSE NoId]
    /\ maxChannels = 0

NextReg == RegAdd \/ RegRemove \/ RegSetCapacity

SpecReg == InitReg /\ [][NextReg]_vars

(* add step by step: the capacity test, then one turn of the scan at a *)
(* time.  The registry starts as for the registry on its own, or full: all *)
(* of the identifiers 1..65535 registered, to channel objects that stay, the *)
(* cursor wrapped to 0 by the last add. *)
OtherHandle == 0

FullRegistry == {<<id, OtherHandle>> : id \in 1..(IdSpace - 1)}

ScanRegistries ==
    StartRegistries \cup {[cursor |-> 0, channels |-> FullRegistry]}

AddCall(h) == Rec("add", "scan", NoFrame, h, <<nextFreeChannel>>, 0)

AddResult(rec, id) ==
    [h |-> rec.it, id |-> id, cursor |-> rec.buf[1], used |-> Keys,
     n |-> nadds + 1, max |-> maxChannels]

\* a channel object is constructed and calls add; connectionimpl.cpp:59
AddStart ==
    /\ stack = <<>>
    /\ nadds < MaxAdds
    /\ \E h \in Handles :
          /\ chanId[h] = NoId
          /\ IF AtCapacity(maxChannels, Cardinality(channels))
             THEN /\ ret' = Ret("add", 0)
                  /\ chanId' = [chanId EXCEPT ![h] = 0]
                  /\ lastAdd' = AddResult(AddCall(h), 0)
                  /\ nadds' = nadds + 1
                  /\ UNCHANGED stack
             ELSE /\ stack' = <<AddCall(h)>>
                  /\ UNCHANGED <<ret, chanId, lastAdd, nadds>>
    /\ UNCHANGED <<alive, destroying, state, closed, queue, channels,
                   nextFreeChannel, maxChannels, invalidated, wire, nsent, napp,
                   stream, peerLog, dispatched, errors, connectedCalls, lastParse, ub>>

\* connectionimpl.cpp:62-75, one turn of the loop
AddScan ==
    /\ At("add", "scan")
    /\ Top.n < MaxTurns
    /\ IF IdIsFree(nextFreeChannel, Keys)
       THEN /\ channels' = {p \in channels : p[1] # nextFreeChannel}
                               \cup {<<nextFreeChannel, Top.it>>}
            /\ stack' = Popped
            /\ ret' = Ret("add", nextFreeChannel)
            /\ chanId' = [chanId EXCEPT ![Top.it] = nextFreeChannel]
            /\ lastAdd' = AddResult(Top, nextFreeChannel)
            /\ nadds' = nadds + 1
       ELSE /\ stack' = SetTop([Top EXCEPT !.n = @ + 1])
            /\ UNCHANGED <<channels, ret, chanId, lastAdd, nadds>>
    /\ nextFreeChannel' = Incr16(nextFreeChannel)
    /\ UNCHANGED <<alive, destroying, state, closed, queue, maxChannels,
                   invalidated, wire, nsent, napp, stream, peerLog, dispatched,
                   errors, connectedCalls, lastParse, ub>>

ScanRemove == stack = <<>> /\ RegRemove

InitScan ==
    /\ Constructed
    /\ \E r \in ScanRegistries :
          /\ nextFreeChannel = r.cursor
          /\ channels = r.channels
          /\ chanId = [h \in Handles |->
                         IF \E p \in r.channels : p[2] = h
                         THEN (CHOOSE p \in r.channels : p[2] = h)[1] ELSE NoId]
    /\ maxChannels \in {0, 1, IdSpace - 1}

NextScan == AddStart \/ AddScan \/ ScanRemove

SpecScan == InitScan /\ [][NextScan]_vars

(* parse on its own: the peer's frames reach parse in pieces of any size; *)
(* callbacks return or, in the processing of a frame, raise a fault *)
NextParse ==
    \/ PeerSend \/ EnvParse
    \/ ParseStart \/ ParseAfterProcess \/ ParseAfterError
    \/ ProcessStart \/ ProcessDone
    \/ SetConnectedStart \/ SetConnectedDrain
    \/ SendStart \/ SendReturn
    \/ EnvReturn \/ EnvThrow

SpecParse == Init /\ [][NextParse]_vars

(* ============================ properties ============================== *)
Negotiating == {"handshake", "protocol"}
Sent == {i \in DOMAIN wire : ~wire[i].f.hs}
QueuedIds == [i \in DOMAIN queue |-> queue[i].f.id]

\* C1: the buffers of frames other than handshake frames reach onData in the
\* order of their send calls, and the frames still queued follow them in that
\* order, whether a frame was sent before negotiation completed or from inside
\* onConnected or onData while setConnected drains the queue; no handshake
\* frame sent before negotiation completed reaches onData after a frame that
\* came out of the queue.
C1_SendOrder ==
    /\ \A i, j \in Sent : i < j => wire[i].f.id < wire[j].f.id
    /\ \A i, j \in DOMAIN queue : i < j => QueuedIds[i] < QueuedIds[j]
    /\ \A i \in Sent : \A j \in DOMAIN queue : wire[i].f.id < QueuedIds[j]
    /\ \A i, j \in DOMAIN wire :
          (i < j /\ wire[i].via = "queue") => ~(wire[j].f.hs /\ wire[j].f.early)

\* two frames sent while negotiating and one sent from inside a callback of
\* setConnected have all reached onData, after a handshake frame
C1_Witness ==
    \E h, i, j, k \in DOMAIN wire :
        /\ h < i /\ i < j /\ j < k
        /\ wire[h].f.kind = "startok"
        /\ wire[i].f.early /\ wire[i].via = "queue"
        /\ wire[j].f.early /\ wire[j].via = "queue"
        /\ wire[k].f.kind = "app" /\ ~wire[k].f.early /\ wire[k].st = "connected"

\* C2: onData receives a buffer while the state is handshake or protocol only
\* for a handshake frame; a send of any other frame in those states appends the
\* buffer to the queue, hands nothing to onData and succeeds, and the buffer
\* reaches onData only out of the queue, after the state left negotiation.
C2_SendWhileNegotiating ==
    At("send", "start") /\ state \in Negotiating /\ ~Top.f.hs
        => /\ queue' = Append(queue, Buffer(Top.f))
           /\ wire' = wire
           /\ ret' = Ret("send", TRUE)

C2_NothingBeforeNegotiation ==
    /\ [](\A i \in DOMAIN wire :
            /\ wire[i].st \in Negotiating => wire[i].f.hs
            /\ (wire[i].f.early /\ ~wire[i].f.hs)
                  => (wire[i].via = "queue" /\ wire[i].st \notin Negotiating))
    /\ [][C2_SendWhileNegotiating]_vars

\* a frame sent in state protocol waits in the queue
C2_Witness ==
    /\ state = "protocol"
    /\ queue # <<>>
    /\ ret = Ret("send", TRUE)

\* C3: a first close() in state handshake or protocol returns true, sets the
\* closed-requested flag and changes neither the state, the queue nor what
\* onData has received; when setConnected runs with the flag set and the
\* connection survives the close sequence, one more connection-close frame has
\* been transmitted or queued and the state is closing.
C3_CloseWhileNegotiating ==
    At("close", "start") /\ ~closed /\ state \in Negotiating
        => /\ ret' = Ret("close", TRUE)
           /\ closed'
           /\ stack' = Popped
           /\ UNCHANGED <<state, queue, wire, nsent, channels>>

C3_LatchedCloseRuns ==
    /\ At("setConnected", "afterSendClose") /\ alive
          => /\ ret = Ret("sendClose", TRUE)
             /\ state = "closing"
             /\ CloseFrames = Top.n + 1
    /\ At("setConnected", "drain") /\ alive /\ closed => state = "closing"

C3_LatchedClose ==
    /\ []C3_LatchedCloseRuns
    /\ [][C3_CloseWhileNegotiating]_vars

\* the deferred close has run inside setConnected: the close frame is out
C3_Witness ==
    /\ At("setConnected", "afterSendClose")
    /\ alive
    /\ state = "closing"
    /\ \E i \in DOMAIN wire : wire[i].f.kind = "close"

\* C4: a close() call leaves the closed-requested flag set, the flag is never
\* reset, and a close() call that finds it set returns false, sends no frame
\* and changes neither the state, the flag, the queue nor the registry.
C4_SecondClose ==
    At("close", "start") /\ closed
        => /\ ret' = Ret("close", FALSE)
           /\ stack' = Popped
           /\ UNCHANGED <<state, closed, queue, channels, nextFreeChannel, wire, nsent>>

C4_CloseIdempotent ==
    /\ [](ret.op = "close" /\ alive => closed)
    /\ [][closed => closed']_vars
    /\ [][C4_SecondClose]_vars

\* a second close() has failed after the first one sent the close frame
C4_Witness ==
    /\ ret = Ret("close", FALSE)
    /\ stack = <<>>
    /\ state = "closing"
    /\ CloseFrames = 1

\* C5: send in state closing or closed returns false, calls nothing and
\* changes no member of the connection.
C5_SendRefused ==
    At("send", "start") /\ state \in {"closing", "closed"}
        => /\ ret' = Ret("send", FALSE)
           /\ stack' = Popped
           /\ UNCHANGED <<conn, wire>>

C5_SendWhenClosing == [][C5_SendRefused]_vars

C5_Witness ==
    /\ ret = Ret("send", FALSE)
    /\ state = "closing"

\* C6: no frame of the application that was handed to send after close() was
\* called is transmitted or queued.
C6_NoSendAfterClose ==
    /\ \A i \in DOMAIN wire : wire[i].f.kind = "app" => ~wire[i].f.afterClose
    /\ \A i \in DOMAIN queue : queue[i].f.kind = "app" => ~queue[i].f.afterClose

\* C7: the registry never holds identifier 0 nor two handles under one
\* identifier, every identifier add returns is in [1, 65535] and was not in the
\* registry when add was called, and every channel object that got an
\* identifier is still registered under it, also after the cursor has wrapped.
C7_FreshIdentifiers ==
    /\ 0 \notin Keys
    /\ \A p, q \in channels : p[1] = q[1] => p = q
    /\ (lastAdd.n > 0 /\ lastAdd.id # 0)
          => /\ lastAdd.id \in 1..(IdSpace - 1)
             /\ lastAdd.id \notin lastAdd.used
    /\ \A h \in Handles : chanId[h] > 0 => <<chanId[h], h>> \in channels

\* an add that found the cursor wrapped to 0 and identifier 1 in use took 2
C7_Witness ==
    /\ lastAdd.n > 0
    /\ lastAdd.cursor = 0
    /\ lastAdd.used = {1, IdSpace - 1}
    /\ lastAdd.id = 2

\* C8 as claimed: add returns the lowest identifier in [1, 65535] that is not
\* registered.
C8_LowestFree ==
    (lastAdd.n > 0 /\ lastAdd.id # 0)
        => \A k \in 1..(lastAdd.id - 1) : k \in lastAdd.used

\* C8 as amended: add returns the first identifier, counting up from the
\* next-free cursor and wrapping at the 16-bit boundary, that is not 0 and not
\* registered; the cursor is left one past the identifier returned.
Distance(from, to) == (to - from + IdSpace) % IdSpace

C8_FirstFreeFromCursor ==
    (lastAdd.n > 0 /\ lastAdd.id # 0)
        => /\ lastAdd.id \notin lastAdd.used
           /\ \A k \in 0..(Distance(lastAdd.cursor, lastAdd.id) - 1) :
                 LET c == (lastAdd.cursor + k) % IdSpace IN
                 c = 0 \/ c \in lastAdd.used
           /\ nextFreeChannel = (lastAdd.id + 1) % IdSpace

\* add, add, remove of 1, add: the third add returns 3 although 1 is free
C8_Witness ==
    /\ lastAdd.n = 3
    /\ lastAdd.cursor = 3
    /\ lastAdd.used = {2}
    /\ lastAdd.id = 3

\* C9: add returns 0 exactly when the channel maximum is nonzero and the
\* registry holds at least that many handles, and then it changes neither the
\* registry nor the cursor; with a maximum of 1 on a new connection the first
\* add returns 1 and the second returns 0.
C9_AddStep ==
    nadds' = nadds + 1
        => IF maxChannels > 0 /\ Cardinality(channels) >= maxChannels
           THEN ret' = Ret("add", 0) /\ UNCHANGED <<channels, nextFreeChannel>>
           ELSE ret'.op = "add" /\ ret'.val # 0 /\ channels' # channels

C9_Scenario ==
    /\ (lastAdd.n = 1 /\ lastAdd.max = 1 /\ lastAdd.cursor = 1) => lastAdd.id = 1
    /\ (lastAdd.n = 2 /\ lastAdd.max = 1 /\ lastAdd.used # {}) => lastAdd.id = 0

C9_CapacitySentinel ==
    /\ []C9_Scenario
    /\ [][C9_AddStep]_vars

\* maximum 1: the second add has returned 0
C9_Witness ==
    /\ lastAdd.n = 2
    /\ lastAdd.max = 1
    /\ lastAdd.used = {1}
    /\ lastAdd.id = 0
    /\ ret = Ret("add", 0)

\* C10: a parse call whose buffer starts with an incomplete frame returns 0,
\* dispatches nothing and leaves the connection and the handler calls as they
\* were, so that the next call, on these bytes and those that follow, starts
\* from the state a single call on the whole buffer starts from; a parse call
\* that meets no fault returns the total size of the frames it dispatched and
\* stops in front of an incomplete frame; however the transport splits the
\* bytes, the frames dispatched are the frames the peer sent, in order, and the
\* bytes left to the transport are those of the frames not yet dispatched.
RECURSIVE Flat(_)
Flat(frames) == IF frames = <<>> THEN <<>> ELSE Head(frames) \o Flat(Tail(frames))

C10_PartialFrames ==
    /\ Decode(lastParse.given, MaxFrameDefault).res = "incomplete"
          => lastParse.n = 0 /\ lastParse.sum = 0 /\ lastParse.same
    /\ ~lastParse.fault
          => /\ lastParse.n = lastParse.sum
             /\ lastParse.n <= Len(lastParse.given)
             /\ (lastParse.entry # "closed" /\ lastParse.n < Len(lastParse.given))
                   => Decode(Drop(lastParse.given, lastParse.n),
                             MaxFrameDefault).res = "incomplete"
    /\ Len(dispatched) <= Len(peerLog)
    /\ \A i \in DOMAIN dispatched : dispatched[i] = KindOf(peerLog[i][1])
    /\ (stack = <<>> /\ errors = 0)
          => stream = Drop(Flat(peerLog),
                           Len(Flat(SubSeq(peerLog, 1, Len(dispatched)))))

\* the prefix of a frame was refused, then the frame and the start of the
\* next one were given and exactly the frame was consumed
C10_Witness ==
    /\ lastParse.prev # <<>>
    /\ lastParse.prevn = 0
    /\ Decode(lastParse.prev, MaxFrameDefault).res = "incomplete"
    /\ Len(lastParse.given) > Len(lastParse.prev)
    /\ SubSeq(lastParse.given, 1, Len(lastParse.prev)) = lastParse.prev
    /\ lastParse.n = Decode(lastParse.given, MaxFrameDefault).size
    /\ lastParse.n > 0
    /\ lastParse.n < Len(lastParse.given)

\* C11: once the connection has been destroyed inside a callback, every
\* operation still in progress only returns: it writes no member of the
\* connection, hands nothing to onData, dispatches no frame and calls neither
\* the handler nor a channel; the parse call in whose frame processing the
\* destruction happened returns the size of the frames it dispatched, the last
\* one included.
C11_ReturnsOnly ==
    (~alive /\ stack # <<>>)
        => /\ stack' = Popped
           /\ UNCHANGED <<conn, wire, dispatched, errors, connectedCalls, nsent>>
           /\ (Top.op = "parse" /\ Top.pc = "afterProcess")
                 => ret' = Ret("parse", Top.aux.sum)

C12_ParseOnDeadConnection ==
    (At("parse", "start") /\ (errors > 0 \/ state = "closed"))
        => /\ ret' = Ret("parse", 0)
           /\ stack' = Popped
           /\ UNCHANGED <<dispatched, errors, state>>

C12_FaultStopsParsing ==
    /\ [](lastParse.fault
            => /\ lastParse.n <= Len(lastParse.given)
               /\ lastParse.n \in {lastParse.sum, lastParse.sum - lastParse.last})
    /\ [][C12_ParseOnDeadConnection]_vars

\* C13: onConnected is never called a second time, and once a frame that
\* completes the negotiation has been processed on a connection that is alive
\* it has been called once.
C13_ConnectedOnce ==
    /\ connectedCalls <= 1
    /\ (stack = <<>> /\ alive /\ \E i \in DOMAIN dispatched : dispatched[i] = "openok")
          => connectedCalls = 1

\* C14: every buffer that reached onData or waits in the queue for a frame
\* that is not part of the handshake ends with the byte 206, whether send
\* handed it over directly or the queue was drained; the first buffer onData
\* received is the protocol header, its bytes alone, with no byte 206 appended.
LastByte(data) == data[Len(data)]

C14_Delimiter ==
    /\ \A i \in DOMAIN wire :
          ~wire[i].f.hs => LastByte(wire[i].data) = EndOfFrame
    /\ \A i \in DOMAIN queue :
          ~queue[i].f.hs => LastByte(queue[i].data) = EndOfFrame
    /\ wire[1].f.kind = "header"
    /\ wire[1].data = <<wire[1].f.id>>
    /\ LastByte(wire[1].data) # EndOfFrame

\* one frame came out of the queue and one went straight to onData
C14_Witness ==
    \E i, j \in DOMAIN wire :
        /\ ~wire[i].f.hs /\ wire[i].via = "queue"
        /\ ~wire[j].f.hs /\ wire[j].via = "direct"
        /\ LastByte(wire[i].data) = EndOfFrame
        /\ LastByte(wire[j].data) = EndOfFrame

\* C15: the close sequence never advances an iterator whose entry a remove
\* has erased, it asks no handle to close twice and none that was not
\* registered when it started, and when it sends the close frame it has asked
\* every handle that was registered when it started.
Asked(rec) == {rec.buf[i] : i \in DOMAIN rec.buf}

C15_RemoveDuringClose ==
    /\ ~ub
    /\ \A i \in DOMAIN stack :
          stack[i].op = "sendClose" /\ stack[i].pc # "start"
              => /\ Cardinality(Asked(stack[i])) = Len(stack[i].buf)
                 /\ Asked(stack[i]) \subseteq stack[i].aux.snap
                 /\ stack[i].pc = "afterSend" => Asked(stack[i]) = stack[i].aux.snap

\* C16: when the close sequence of a live connection hands the close frame to
\* send, every registered handle has been asked to close; when send has
\* returned it sets the state to closing, and the state closing is left only
\* for closed, so that send stays refused; when the connection
\* was destroyed during a channel's close the sequence returns false without
\* sending the close frame or writing the state.
C16_CloseSequence ==
    /\ (stack # <<>> /\ Top.op = "sendClose" /\ Top.pc \in {"start", "afterChan"}
            /\ alive /\ stack'[Len(stack')].op = "send")
          => Registered \subseteq Asked(stack'[Len(stack)])
    /\ (At("sendClose", "afterSend") /\ alive)
          => state' = "closing" /\ ret' = Ret("sendClose", TRUE)
    /\ state = "closing" => state' \in {"closing", "closed"}
    /\ (At("sendClose", "afterChan") /\ ~alive)
          => /\ ret' = Ret("sendClose", FALSE)
             /\ stack' = Popped
             /\ UNCHANGED <<state, wire, queue, nsent>>

C16_CloseOrder == [][C16_CloseSequence]_vars

\* C17: no channel is invalidated while the connection lives; the destructor,
\* after its close() call has returned, invalidates in one pass exactly the
\* handles registered at that moment, the registry still intact, and these stay
\* the invalidated handles once the connection is gone.
C17_DestructorStep ==
    At("destroy", "afterClose")
        => /\ invalidated = {}
           /\ invalidated' = Registered
           /\ channels' = channels
           /\ ~alive'

Rank(st) ==
    CASE st = "handshake" -> 1 [] st = "protocol" -> 2 [] st = "connected" -> 3
      [] st = "closing" -> 4 [] st = "closed" -> 5

C18_Step ==
    /\ Rank(state) <= Rank(state')
    /\ state \in {"closing", "closed"}
          => /\ CloseFrames' = CloseFrames
             /\ At("send", "start") => ret' = Ret("send", FALSE)

C18_StateForward == [][C18_Step]_vars

\* C19: whenever add has passed its capacity test and scans, the test that
\* ends the scan can succeed: some identifier is neither 0 nor registered, so
\* the scan ends within one round of the 16-bit cursor.
C19_ScanCanEnd ==
    At("add", "scan") => (1..(IdSpace - 1)) \ Keys # {}

====
